---- MODULE Spec2Model ----
(***************************************************************************)
(* Model of the product migration / export pipeline:                       *)
(*   - src/unnamed/part_000          (document-store variant, migrate)     *)
(*   - src/server/export-to-json.ts  (file variant, exportToJson)          *)
(* Both scripts share retryWithBackoff, the extractor and the batch loop.  *)
(* One run of one script is one behaviour of Spec; SpecRetry exercises     *)
(* retryWithBackoff alone for every maximum attempt count.                 *)
(***************************************************************************)
EXTENDS Integers, Sequences, FiniteSets

\* ---------------------------------------------------------------- bounds
MaxN == 3          \* most rows the source table holds
MaxBatch == 2      \* largest window size tried for BATCH_SIZE
MaxSku == 2        \* distinct sku values in the source table
MaxPrior == 1      \* documents left in the collection by an earlier run
MaxRetries == 7    \* largest maxRetries argument tried in SpecRetry
MaxTags == 3       \* most elements or fragments of a generated tags column

\* ------------------------------------------------------ program constants
DefaultMaxRetries == 3
BaseDelayMs == 1000
CapDelayMs == 30000
RateLimitStatus == 429
DuplicateKeyCode == 11000
OkStatus == 200

\* Error statuses the provider may answer with; 0 stands for an error
\* object that carries no status field at all.
ErrStatuses == {RateLimitStatus, 500, 0}
\* Marker for the Error("Max retries exceeded") raised after the loop.
MaxRetriesExceeded == -1

VARIABLES
  variant,               \* "store" (migrate) or "file" (exportToJson)
  GOOGLE_API_KEY,        \* process.env.GOOGLE_API_KEY is set
  MONGODB_ATLAS_URI,     \* process.env.MONGODB_ATLAS_URI is set
  BATCH_SIZE,            \* window size
  uniqueSku,             \* the collection has a unique index on sku
  destBefore,            \* documents the collection held before the run
  fileBefore,            \* the output file as it was before the run
  pc,                    \* position of the run
  sqliteProducts,        \* rows returned by the extractor (their skus)
  i,                     \* offset of the current window
  j,                     \* position inside the current window (1-based)
  productsWithEmbeddings,\* records collected for the sink
  successCount, failCount,      \* exportToJson counters
  totalSuccess, totalFailed,    \* migrate counters
  success, failed, k,           \* insertProductsToMongo locals
  mongoClient,           \* "null", "open" or "closed"
  dest,                  \* documents of inventory_database.items
  vectorIndex,           \* the search index "vector_index" exists
  createCalls,           \* createSearchIndex calls made
  outputFile,            \* <<>> when absent, else <<content>>
  summary,               \* <<>> until the final report, then <<ok, failed>>
  exitStatus,            \* "none", "zero" or "nonzero"
  thrownAt,              \* step whose error ended the run, or "none"
  srcOpens, srcCloses,   \* source database opened / closed
  embedLog,              \* records handed to retryWithBackoff, in order
  embedOk,               \* result of each finished retryWithBackoff call
  insertLog,             \* every insertOne of the run: record, outcome, error code
  callLog,               \* the insertOne calls of the current insertProductsToMongo
  purges,                \* deleteMany calls that succeeded
  pauses,                \* inter-window delays taken
  rpc,                   \* retryWithBackoff: "idle","call","wait","returned","threw"
  attempt, maxRetries,   \* retryWithBackoff loop variable and argument
  rhist,                 \* provider answers seen by this call
  waits,                 \* delays slept by this call (ms)
  rerr,                  \* error the call threw
  indexStep,             \* how ensureVectorSearchIndex ended, "none" before
  diagnostic,            \* the "Fatal error:" line was printed
  tpc,                   \* transformer harness: "idle", "input" or "done"
  tagsField,             \* the tags column of the record being transformed
  tags                   \* the tags array the transformer produced

envVars == <<variant, GOOGLE_API_KEY, MONGODB_ATLAS_URI, BATCH_SIZE, uniqueSku,
            destBefore, fileBefore>>
loopVars == <<i, j, productsWithEmbeddings, successCount, failCount,
              totalSuccess, totalFailed>>
insertVars == <<success, failed, k, callLog, insertLog>>
storeVars == <<mongoClient, dest, vectorIndex, createCalls, purges>>
endVars == <<outputFile, summary, exitStatus, thrownAt>>
srcVars == <<sqliteProducts, srcOpens, srcCloses>>
ghostVars == <<embedLog, embedOk, pauses>>
retryVars == <<rpc, attempt, maxRetries, rhist, waits, rerr>>
tagVars == <<tpc, tagsField, tags>>
noteVars == <<indexStep, diagnostic, tagVars>>
vars == <<envVars, pc, loopVars, insertVars, storeVars, endVars, srcVars,
          ghostVars, retryVars, noteVars>>

\* ---------------------------------------------------------------- helpers
Min(a, b) == IF a < b THEN a ELSE b

RECURSIVE Pow2(_)
Pow2(n) == IF n = 0 THEN 1 ELSE 2 * Pow2(n - 1)

RECURSIVE SumSeq(_)
SumSeq(s) == IF s = <<>> THEN 0 ELSE Head(s) + SumSeq(Tail(s))

\* Faulty variant: the delay is not capped.
BackoffDelay_NoCap(a) == BaseDelayMs * Pow2(a)

\* const delay = Math.min(1000 * Math.pow(2, attempt), 30000)
BackoffDelay(a) == Min(BaseDelayMs * Pow2(a), CapDelayMs)

\* Faulty variants of the retry condition.
ShouldRetry_GivesUpEarly(status, a, m) == status = RateLimitStatus /\ a < m - 1
ShouldRetry_AnyError(status, a, m) == a < m
ShouldRetry_OffByOne(status, a, m) == status = RateLimitStatus /\ a <= m

\* error.status === 429 && attempt < maxRetries
ShouldRetry(status, a, m) == status = RateLimitStatus /\ a < m

\* sqliteProducts.map(transform...): the record of row n, without embedding
mongoProducts ==
  [n \in 1..Len(sqliteProducts) |-> [idx |-> n, sku |-> sqliteProducts[n], emb |-> FALSE]]

N == Len(sqliteProducts)

\* mongoProducts.slice(i, i + BATCH_SIZE)
batch == SubSeq(mongoProducts, i + 1, Min(i + BATCH_SIZE, N))

\* The tables the extractor may find: up to MaxN rows whose skus need not
\* differ.  Only equality of skus is ever observed, so they are numbered in
\* order of first appearance.
Rows ==
  {r \in UNION {[1..n -> 1..MaxSku] : n \in 0..MaxN} :
     \A n \in 1..Len(r) : r[n] = 1 \/ \E m \in 1..(n - 1) : r[m] >= r[n] - 1}

PriorDocs == {[origin |-> "prior", idx |-> p, sku |-> 1, emb |-> TRUE] : p \in 1..MaxPrior}

\* ------------------------------------------------------------------- Init
RetryIdle ==
  /\ rpc = "idle" /\ attempt = 0 /\ maxRetries = DefaultMaxRetries
  /\ rhist = <<>> /\ waits = <<>> /\ rerr = 0

RunFields ==
  /\ sqliteProducts = <<>> /\ i = 0 /\ j = 0
  /\ productsWithEmbeddings = <<>>
  /\ successCount = 0 /\ failCount = 0
  /\ totalSuccess = 0 /\ totalFailed = 0
  /\ success = 0 /\ failed = 0 /\ k = 0
  /\ mongoClient = "null"
  /\ summary = <<>>
  /\ exitStatus = "none" /\ thrownAt = "none"
  /\ srcOpens = 0 /\ srcCloses = 0
  /\ embedLog = <<>> /\ embedOk = <<>>
  /\ insertLog = <<>> /\ callLog = <<>>
  /\ purges = 0 /\ pauses = 0 /\ createCalls = 0
  /\ indexStep = "none" /\ diagnostic = FALSE
  /\ tpc = "idle" /\ tagsField = <<>> /\ tags = <<>>

\* The output file an earlier export left behind.
PriorFile == <<[idx |-> 1, sku |-> 1, emb |-> TRUE]>>

\* The environment a run starts in.
InitEnv ==
  /\ variant \in {"store", "file"}
  /\ GOOGLE_API_KEY \in BOOLEAN
  /\ BATCH_SIZE \in 1..MaxBatch
  /\ IF variant = "store"
       THEN /\ MONGODB_ATLAS_URI \in BOOLEAN
            /\ uniqueSku \in BOOLEAN
            /\ dest \in {{}, PriorDocs}
            /\ vectorIndex \in BOOLEAN
            /\ outputFile = <<>>
       ELSE /\ MONGODB_ATLAS_URI = FALSE
            /\ uniqueSku = FALSE
            /\ dest = {}
            /\ vectorIndex = FALSE
            /\ outputFile \in {<<>>, <<PriorFile>>}
  /\ destBefore = dest
  /\ fileBefore = outputFile

Init ==
  /\ InitEnv
  /\ pc = "start"
  /\ RunFields
  /\ RetryIdle

\* --------------------------------------------------------- retryWithBackoff
\* One pass of the for loop up to the await that follows: the loop guard,
\* the call of fn(), and the catch clause's decision.
RetryInvoke ==
  /\ rpc = "call"
  /\ IF attempt > maxRetries
       THEN /\ rpc' = "threw"
            /\ rerr' = MaxRetriesExceeded
            /\ UNCHANGED <<attempt, rhist, waits>>
       ELSE \E r \in {OkStatus} \cup ErrStatuses :
              /\ rhist' = Append(rhist, r)
              /\ IF r = OkStatus
                   THEN rpc' = "returned" /\ UNCHANGED <<waits, rerr>>
                   ELSE IF ShouldRetry(r, attempt, maxRetries)
                     THEN /\ rpc' = "wait"
                          /\ waits' = Append(waits, BackoffDelay(attempt))
                          /\ UNCHANGED rerr
                     ELSE /\ rpc' = "threw"
                          /\ rerr' = r
                          /\ UNCHANGED waits
              /\ UNCHANGED attempt
  /\ UNCHANGED <<noteVars, maxRetries, envVars, pc, loopVars, insertVars, storeVars,
                 endVars, srcVars, ghostVars>>

\* The setTimeout promise resolves; continue with the next attempt.
RetryWait ==
  /\ rpc = "wait"
  /\ rpc' = "call"
  /\ attempt' = attempt + 1
  /\ UNCHANGED <<noteVars, maxRetries, rhist, waits, rerr, envVars, pc, loopVars,
                 insertVars, storeVars, endVars, srcVars, ghostVars>>

\* ------------------------------------------------------------- run steps
\* Where control goes when a step throws: inside migrate's try block the
\* finally clause runs first; everywhere else the promise rejects at once.
AfterThrow(inTry) == IF variant = "store" /\ inTry THEN "finally" ELSE "exit"

\* Faulty variant: the embedding key is not validated.
Validate_KeyNotChecked ==
  /\ pc = "start"
  /\ IF variant = "store" /\ ~MONGODB_ATLAS_URI
       THEN /\ thrownAt' = "config"
            /\ pc' = AfterThrow(FALSE)
       ELSE /\ pc' = "extract"
            /\ UNCHANGED thrownAt
  /\ UNCHANGED <<noteVars, envVars, loopVars, insertVars, storeVars, outputFile,
                 summary, exitStatus, srcVars, ghostVars, retryVars>>

\* Validate environment variables (before the try block).
Validate ==
  /\ pc = "start"
  /\ IF (variant = "store" /\ ~MONGODB_ATLAS_URI) \/ ~GOOGLE_API_KEY
       THEN /\ thrownAt' = "config"
            /\ pc' = AfterThrow(FALSE)
       ELSE /\ pc' = "extract"
            /\ UNCHANGED thrownAt
  /\ UNCHANGED <<noteVars, envVars, loopVars, insertVars, storeVars, outputFile, summary,
                 exitStatus, srcVars, ghostVars, retryVars>>

\* Faulty variant: no early return when the table is empty.
Extract_NoEmptyCheck ==
  /\ pc = "extract"
  /\ \/ /\ thrownAt' = "open"
        /\ pc' = AfterThrow(TRUE)
        /\ UNCHANGED srcVars
     \/ /\ thrownAt' = "query"
        /\ pc' = AfterThrow(TRUE)
        /\ srcOpens' = srcOpens + 1
        /\ srcCloses' = srcCloses + 1
        /\ UNCHANGED sqliteProducts
     \/ \E rows \in Rows :
          /\ sqliteProducts' = rows
          /\ srcOpens' = srcOpens + 1
          /\ srcCloses' = srcCloses + 1
          /\ pc' = IF variant = "store" THEN "connect" ELSE "loop"
          /\ UNCHANGED thrownAt
  /\ UNCHANGED <<noteVars, envVars, loopVars, insertVars, storeVars, outputFile,
                 summary, exitStatus, ghostVars, retryVars>>

\* extractProductsFromSQLite, the empty check and the map over the rows.
Extract ==
  /\ pc = "extract"
  /\ \/ /\ thrownAt' = "open"            \* new Database(...) throws
        /\ pc' = AfterThrow(TRUE)
        /\ UNCHANGED srcVars
     \/ /\ thrownAt' = "query"           \* prepare/all throws; finally closes
        /\ pc' = AfterThrow(TRUE)
        /\ srcOpens' = srcOpens + 1
        /\ srcCloses' = srcCloses + 1
        /\ UNCHANGED sqliteProducts
     \/ \E rows \in Rows :
          /\ sqliteProducts' = rows
          /\ srcOpens' = srcOpens + 1
          /\ srcCloses' = srcCloses + 1
          /\ pc' = IF Len(rows) = 0 THEN AfterThrow(TRUE)
                   ELSE IF variant = "store" THEN "connect" ELSE "loop"
          /\ UNCHANGED thrownAt
  /\ UNCHANGED <<noteVars, envVars, loopVars, insertVars, storeVars, outputFile, summary,
                 exitStatus, ghostVars, retryVars>>

\* Faulty variant: a failed connect is swallowed and the run goes on.
Connect_ErrorSwallowed ==
  /\ pc = "connect"
  /\ mongoClient' = "open"
  /\ \/ pc' = "ping" /\ UNCHANGED thrownAt
     \/ pc' = "ping" /\ thrownAt' = "connect"
  /\ UNCHANGED <<noteVars, envVars, loopVars, insertVars, dest, vectorIndex,
                 createCalls, purges, outputFile, summary, exitStatus, srcVars,
                 ghostVars, retryVars>>

\* new MongoClient(...) and await mongoClient.connect()
Connect ==
  /\ pc = "connect"
  /\ mongoClient' = "open"
  /\ \/ pc' = "ping" /\ UNCHANGED thrownAt
     \/ pc' = AfterThrow(TRUE) /\ thrownAt' = "connect"
  /\ UNCHANGED <<noteVars, envVars, loopVars, insertVars, dest, vectorIndex, createCalls,
                 purges, outputFile, summary, exitStatus, srcVars, ghostVars,
                 retryVars>>

\* await mongoClient.db("admin").command({ ping: 1 })
Ping ==
  /\ pc = "ping"
  /\ \/ pc' = "index" /\ UNCHANGED thrownAt
     \/ pc' = AfterThrow(TRUE) /\ thrownAt' = "ping"
  /\ UNCHANGED <<noteVars, envVars, loopVars, insertVars, storeVars, outputFile, summary,
                 exitStatus, srcVars, ghostVars, retryVars>>

\* Faulty variant: the catch clause rethrows.
EnsureVectorSearchIndex_Rethrows ==
  /\ pc = "index"
  /\ \/ /\ indexStep' = "listFailed"
        /\ thrownAt' = "index"
        /\ pc' = AfterThrow(TRUE)
        /\ UNCHANGED <<vectorIndex, createCalls>>
     \/ /\ vectorIndex
        /\ indexStep' = "exists"
        /\ pc' = "purge"
        /\ UNCHANGED <<vectorIndex, createCalls, thrownAt>>
     \/ /\ ~vectorIndex
        /\ indexStep' = "created"
        /\ vectorIndex' = TRUE
        /\ createCalls' = createCalls + 1
        /\ pc' = "purge"
        /\ UNCHANGED thrownAt
     \/ /\ ~vectorIndex
        /\ indexStep' = "createFailed"
        /\ createCalls' = createCalls + 1
        /\ thrownAt' = "index"
        /\ pc' = AfterThrow(TRUE)
        /\ UNCHANGED vectorIndex
  /\ UNCHANGED <<diagnostic, tagVars, envVars, loopVars, insertVars, mongoClient,
                 dest, purges, outputFile, summary, exitStatus, srcVars,
                 ghostVars, retryVars>>

\* ensureVectorSearchIndex: every error is caught inside the function.
EnsureVectorSearchIndex ==
  /\ pc = "index"
  /\ \/ /\ indexStep' = "listFailed"                \* listSearchIndexes throws
        /\ UNCHANGED <<vectorIndex, createCalls>>
     \/ /\ vectorIndex                              \* index found: return
        /\ indexStep' = "exists"
        /\ UNCHANGED <<vectorIndex, createCalls>>
     \/ /\ ~vectorIndex                             \* createSearchIndex succeeds
        /\ indexStep' = "created"
        /\ vectorIndex' = TRUE
        /\ createCalls' = createCalls + 1
     \/ /\ ~vectorIndex                             \* createSearchIndex throws
        /\ indexStep' = "createFailed"
        /\ createCalls' = createCalls + 1
        /\ UNCHANGED vectorIndex
  /\ pc' = "purge"
  /\ UNCHANGED <<diagnostic, tagVars, envVars, loopVars, insertVars, mongoClient, dest, purges,
                 endVars, srcVars, ghostVars, retryVars>>

\* Faulty variant: step 5 commented out, the run appends instead.
Purge_KeepsDocuments ==
  /\ pc = "purge"
  /\ \/ /\ purges' = purges + 1
        /\ pc' = "loop"
        /\ UNCHANGED <<dest, thrownAt>>
     \/ /\ thrownAt' = "purge"
        /\ pc' = AfterThrow(TRUE)
        /\ UNCHANGED <<dest, purges>>
  /\ UNCHANGED <<noteVars, envVars, loopVars, insertVars, mongoClient, vectorIndex,
                 createCalls, outputFile, summary, exitStatus, srcVars,
                 ghostVars, retryVars>>

\* await collection.deleteMany({}), then the loop counters are set up.
Purge ==
  /\ pc = "purge"
  /\ \/ /\ dest' = {}
        /\ purges' = purges + 1
        /\ pc' = "loop"
        /\ UNCHANGED thrownAt
     \/ /\ thrownAt' = "purge"
        /\ pc' = AfterThrow(TRUE)
        /\ UNCHANGED <<dest, purges>>
  /\ UNCHANGED <<noteVars, envVars, loopVars, insertVars, mongoClient, vectorIndex,
                 createCalls, outputFile, summary, exitStatus, srcVars,
                 ghostVars, retryVars>>

\* Faulty variant: the collection is cleared at the head of every window.
BatchStart_PurgesEveryWindow ==
  /\ pc = "loop"
  /\ IF i < N
       THEN /\ pc' = "embed"
            /\ j' = 1
            /\ productsWithEmbeddings' =
                 IF variant = "store" THEN <<>> ELSE productsWithEmbeddings
            /\ IF variant = "store"
                 THEN dest' = {} /\ purges' = purges + 1
                 ELSE UNCHANGED <<dest, purges>>
       ELSE /\ pc' = IF variant = "store" THEN "verify" ELSE "write"
            /\ UNCHANGED <<j, productsWithEmbeddings, dest, purges>>
  /\ UNCHANGED <<noteVars, envVars, i, successCount, failCount, totalSuccess, totalFailed,
                 insertVars, mongoClient, vectorIndex, createCalls, endVars, srcVars,
                 ghostVars, retryVars>>

\* Head of the window loop: for (let i = 0; i < length; i += BATCH_SIZE)
BatchStart ==
  /\ pc = "loop"
  /\ IF i < N
       THEN /\ pc' = "embed"
            /\ j' = 1
            /\ productsWithEmbeddings' =
                 IF variant = "store" THEN <<>> ELSE productsWithEmbeddings
       ELSE /\ pc' = IF variant = "store" THEN "verify" ELSE "write"
            /\ UNCHANGED <<j, productsWithEmbeddings>>
  /\ UNCHANGED <<noteVars, envVars, i, successCount, failCount, totalSuccess, totalFailed,
                 insertVars, storeVars, endVars, srcVars, ghostVars, retryVars>>

\* for (const product of batch): hand the next record to retryWithBackoff.
EmbedStart ==
  /\ pc = "embed"
  /\ j <= Len(batch)
  /\ pc' = "await_embed"
  /\ embedLog' = Append(embedLog, batch[j].idx)
  /\ rpc' = "call"
  /\ attempt' = 1
  /\ maxRetries' = DefaultMaxRetries
  /\ rhist' = <<>>
  /\ waits' = <<>>
  /\ rerr' = 0
  /\ UNCHANGED <<noteVars, envVars, loopVars, insertVars, storeVars, endVars, srcVars,
                 embedOk, pauses>>

\* Faulty variant: the embedded record is put at the front of the array.
EmbedSuccess_Prepends ==
  /\ pc = "await_embed"
  /\ rpc = "returned"
  /\ productsWithEmbeddings' =
       <<[batch[j] EXCEPT !.emb = TRUE]>> \o productsWithEmbeddings
  /\ successCount' = IF variant = "file" THEN successCount + 1 ELSE successCount
  /\ embedOk' = Append(embedOk, TRUE)
  /\ j' = j + 1
  /\ pc' = "embed"
  /\ rpc' = "idle" /\ attempt' = 0 /\ rhist' = <<>> /\ waits' = <<>> /\ rerr' = 0
  /\ UNCHANGED <<noteVars, envVars, i, failCount, totalSuccess, totalFailed, insertVars,
                 storeVars, endVars, srcVars, embedLog, pauses, maxRetries>>

\* retryWithBackoff returned a vector: push the record with its embedding.
EmbedSuccess ==
  /\ pc = "await_embed"
  /\ rpc = "returned"
  /\ productsWithEmbeddings' =
       Append(productsWithEmbeddings, [batch[j] EXCEPT !.emb = TRUE])
  /\ successCount' = IF variant = "file" THEN successCount + 1 ELSE successCount
  /\ embedOk' = Append(embedOk, TRUE)
  /\ j' = j + 1
  /\ pc' = "embed"
  /\ rpc' = "idle" /\ attempt' = 0 /\ rhist' = <<>> /\ waits' = <<>> /\ rerr' = 0
  /\ UNCHANGED <<noteVars, envVars, i, failCount, totalSuccess, totalFailed, insertVars,
                 storeVars, endVars, srcVars, embedLog, pauses, maxRetries>>

\* Faulty variant: a failed embedding ends the window.
EmbedFailure_AbortsBatch ==
  /\ pc = "await_embed"
  /\ rpc = "threw"
  /\ IF variant = "file"
       THEN /\ failCount' = failCount + 1
            /\ productsWithEmbeddings' = Append(productsWithEmbeddings, batch[j])
       ELSE UNCHANGED <<failCount, productsWithEmbeddings>>
  /\ embedOk' = Append(embedOk, FALSE)
  /\ j' = Len(batch) + 1
  /\ pc' = "embed"
  /\ rpc' = "idle" /\ attempt' = 0 /\ rhist' = <<>> /\ waits' = <<>> /\ rerr' = 0
  /\ UNCHANGED <<noteVars, envVars, i, successCount, totalSuccess, totalFailed, insertVars,
                 storeVars, endVars, srcVars, embedLog, pauses, maxRetries>>

\* retryWithBackoff threw: the catch clause of the per-record try.
EmbedFailure ==
  /\ pc = "await_embed"
  /\ rpc = "threw"
  /\ IF variant = "file"
       THEN /\ failCount' = failCount + 1
            /\ productsWithEmbeddings' = Append(productsWithEmbeddings, batch[j])
       ELSE UNCHANGED <<failCount, productsWithEmbeddings>>
  /\ embedOk' = Append(embedOk, FALSE)
  /\ j' = j + 1
  /\ pc' = "embed"
  /\ rpc' = "idle" /\ attempt' = 0 /\ rhist' = <<>> /\ waits' = <<>> /\ rerr' = 0
  /\ UNCHANGED <<noteVars, envVars, i, successCount, totalSuccess, totalFailed, insertVars,
                 storeVars, endVars, srcVars, embedLog, pauses, maxRetries>>

\* The for-of over the window is exhausted.  migrate: the collected records
\* go to insertProductsToMongo, whose counters start at zero.
BatchEmbedded ==
  /\ pc = "embed"
  /\ j > Len(batch)
  /\ IF variant = "store"
       THEN /\ pc' = "insert"
            /\ k' = 1
            /\ success' = 0
            /\ failed' = 0
            /\ callLog' = <<>>
       ELSE /\ pc' = "pace"
            /\ UNCHANGED <<k, success, failed, callLog>>
  /\ UNCHANGED <<noteVars, envVars, loopVars, insertLog, storeVars, endVars, srcVars,
                 ghostVars, retryVars>>

\* The document insertOne(p) would store.
DocOf(p) == [origin |-> "run", idx |-> p.idx, sku |-> p.sku, emb |-> p.emb]

\* Faulty variant: an insert error leaves the loop.
InsertOne_AbortsOnError ==
  /\ pc = "insert"
  /\ k <= Len(productsWithEmbeddings)
  /\ LET p == productsWithEmbeddings[k]
         Log(ok, code) ==
           /\ callLog' = Append(callLog, [doc |-> p, ok |-> ok, code |-> code])
           /\ insertLog' = Append(insertLog, [doc |-> p, ok |-> ok, code |-> code])
     IN
       \/ /\ failed' = failed + 1
          /\ \/ Log(FALSE, 0)
             \/ /\ uniqueSku /\ \E d \in dest : d.sku = p.sku
                /\ Log(FALSE, DuplicateKeyCode)
          /\ k' = Len(productsWithEmbeddings) + 1
          /\ UNCHANGED <<success, dest>>
       \/ /\ ~(uniqueSku /\ \E d \in dest : d.sku = p.sku)
          /\ success' = success + 1
          /\ dest' = dest \cup {DocOf(p)}
          /\ Log(TRUE, 0)
          /\ k' = k + 1
          /\ UNCHANGED failed
  /\ UNCHANGED <<noteVars, envVars, pc, loopVars, mongoClient, vectorIndex, createCalls,
                 purges, endVars, srcVars, ghostVars, retryVars>>

\* One iteration of insertProductsToMongo's loop.  code is error.code of the
\* failure, 0 when the error carries none.
InsertOne ==
  /\ pc = "insert"
  /\ k <= Len(productsWithEmbeddings)
  /\ LET p == productsWithEmbeddings[k]
         Log(ok, code) ==
           /\ callLog' = Append(callLog, [doc |-> p, ok |-> ok, code |-> code])
           /\ insertLog' = Append(insertLog, [doc |-> p, ok |-> ok, code |-> code])
     IN
       \/ /\ uniqueSku /\ \E d \in dest : d.sku = p.sku      \* E11000
          /\ failed' = failed + 1
          /\ Log(FALSE, DuplicateKeyCode)
          /\ UNCHANGED <<success, dest>>
       \/ /\ failed' = failed + 1                             \* any other error
          /\ Log(FALSE, 0)
          /\ UNCHANGED <<success, dest>>
       \/ /\ ~(uniqueSku /\ \E d \in dest : d.sku = p.sku)    \* stored
          /\ success' = success + 1
          /\ dest' = dest \cup {DocOf(p)}
          /\ Log(TRUE, 0)
          /\ UNCHANGED failed
  /\ k' = k + 1
  /\ UNCHANGED <<noteVars, envVars, pc, loopVars, mongoClient, vectorIndex, createCalls,
                 purges, endVars, srcVars, ghostVars, retryVars>>

\* return { success, failed } and the caller's two += lines.
InsertReturn ==
  /\ pc = "insert"
  /\ k > Len(productsWithEmbeddings)
  /\ totalSuccess' = totalSuccess + success
  /\ totalFailed' = totalFailed + failed
  /\ pc' = "pace"
  /\ UNCHANGED <<noteVars, envVars, i, j, productsWithEmbeddings, successCount, failCount,
                 insertVars, storeVars, endVars, srcVars, ghostVars, retryVars>>

\* Faulty variant: the delay is taken after every window, the last included.
WindowEnd_AlwaysDelays ==
  /\ pc = "pace"
  /\ pc' = "delay"
  /\ UNCHANGED <<noteVars, envVars, loopVars, insertVars, storeVars, endVars,
                 srcVars, ghostVars, retryVars>>

\* if (i + BATCH_SIZE < length) wait; otherwise go round the loop.
WindowEnd ==
  /\ pc = "pace"
  /\ IF i + BATCH_SIZE < N
       THEN pc' = "delay" /\ UNCHANGED i
       ELSE pc' = "loop" /\ i' = i + BATCH_SIZE
  /\ UNCHANGED <<noteVars, envVars, j, productsWithEmbeddings, successCount, failCount,
                 totalSuccess, totalFailed, insertVars, storeVars, endVars,
                 srcVars, ghostVars, retryVars>>

\* Faulty variant: the delay promise is never resolved.
BatchDelay_NeverResolves ==
  /\ pc = "delay"
  /\ UNCHANGED vars

\* The BATCH_DELAY timer fires; i += BATCH_SIZE.
BatchDelay ==
  /\ pc = "delay"
  /\ pauses' = pauses + 1
  /\ i' = i + BATCH_SIZE
  /\ pc' = "loop"
  /\ UNCHANGED <<noteVars, envVars, j, productsWithEmbeddings, successCount, failCount,
                 totalSuccess, totalFailed, insertVars, storeVars, endVars,
                 srcVars, embedLog, embedOk, retryVars>>

\* verifyMigration: countDocuments twice and findOne; any of them may throw.
VerifyMigration ==
  /\ pc = "verify"
  /\ \/ pc' = "report" /\ UNCHANGED thrownAt
     \/ pc' = AfterThrow(TRUE) /\ thrownAt' = "verify"
  /\ UNCHANGED <<noteVars, envVars, loopVars, insertVars, storeVars, outputFile, summary,
                 exitStatus, srcVars, ghostVars, retryVars>>

\* fs.writeFileSync(outputPath, JSON.stringify(productsWithEmbeddings))
WriteFile ==
  /\ pc = "write"
  /\ \/ /\ outputFile' = <<productsWithEmbeddings>>
        /\ pc' = "report"
        /\ UNCHANGED thrownAt
     \/ /\ thrownAt' = "write"
        /\ pc' = AfterThrow(TRUE)
        /\ UNCHANGED outputFile
  /\ UNCHANGED <<noteVars, envVars, loopVars, insertVars, storeVars, summary, exitStatus,
                 srcVars, ghostVars, retryVars>>

\* The final report block.
Report ==
  /\ pc = "report"
  /\ summary' = IF variant = "store" THEN <<[succeeded |-> totalSuccess, failed |-> totalFailed]>>
                ELSE <<[succeeded |-> successCount, failed |-> failCount]>>
  /\ pc' = AfterThrow(TRUE)
  /\ UNCHANGED <<noteVars, envVars, loopVars, insertVars, storeVars, outputFile, exitStatus,
                 thrownAt, srcVars, ghostVars, retryVars>>

\* Faulty variant: the client is not closed.
Finally_SkipsClose ==
  /\ pc = "finally"
  /\ pc' = "exit"
  /\ UNCHANGED <<noteVars, envVars, loopVars, insertVars, storeVars, endVars,
                 srcVars, ghostVars, retryVars>>

\* migrate's finally clause.
Finally ==
  /\ pc = "finally"
  /\ mongoClient' = IF mongoClient = "open" THEN "closed" ELSE mongoClient
  /\ pc' = "exit"
  /\ UNCHANGED <<noteVars, envVars, loopVars, insertVars, dest, vectorIndex, createCalls,
                 purges, endVars, srcVars, ghostVars, retryVars>>

\* Faulty variant: the rejection handler is missing.
Exit_NoHandler ==
  /\ pc = "exit"
  /\ exitStatus' = "zero"
  /\ pc' = "done"
  /\ UNCHANGED <<noteVars, envVars, loopVars, insertVars, storeVars, outputFile,
                 summary, thrownAt, srcVars, ghostVars, retryVars>>

\* The promise of the run settles: .catch(... process.exit(1)) or a normal end.
Exit ==
  /\ pc = "exit"
  /\ exitStatus' = IF thrownAt = "none" THEN "zero" ELSE "nonzero"
  /\ diagnostic' = (thrownAt # "none")
  /\ pc' = "done"
  /\ UNCHANGED <<indexStep, tagVars, envVars, loopVars, insertVars, storeVars, outputFile, summary,
                 thrownAt, srcVars, ghostVars, retryVars>>

Next ==
  \/ Validate \/ Extract \/ Connect \/ Ping \/ EnsureVectorSearchIndex \/ Purge
  \/ BatchStart \/ EmbedStart \/ RetryInvoke \/ RetryWait
  \/ EmbedSuccess \/ EmbedFailure \/ BatchEmbedded
  \/ InsertOne \/ InsertReturn \/ WindowEnd \/ BatchDelay
  \/ VerifyMigration \/ WriteFile \/ Report \/ Finally \/ Exit

Spec == Init /\ [][Next]_vars

\* The same runs when every call that was started returns (with a result or
\* an error) and every timer fires: the single thread of control never stalls.
\* Termination does not depend on what the run finds in place, so the
\* configuration is taken to be complete, the collection empty and the
\* search index present.
InitFair ==
  /\ Init
  /\ GOOGLE_API_KEY
  /\ variant = "store" => (MONGODB_ATLAS_URI /\ dest = {} /\ vectorIndex)

FairSpec == InitFair /\ [][Next]_vars /\ WF_vars(Next)

\* ------------------------------------------- retryWithBackoff on its own
\* retryWithBackoff(fn, maxRetries) called with every small maxRetries and
\* every sequence of provider answers.
InitRetry ==
  /\ variant = "file"
  /\ GOOGLE_API_KEY = TRUE
  /\ MONGODB_ATLAS_URI = FALSE
  /\ BATCH_SIZE = 1
  /\ uniqueSku = FALSE
  /\ dest = {}
  /\ destBefore = {}
  /\ vectorIndex = FALSE
  /\ outputFile = <<>>
  /\ fileBefore = <<>>
  /\ pc = "harness"
  /\ RunFields
  /\ rpc = "call"
  /\ attempt = 1
  /\ maxRetries \in 0..MaxRetries
  /\ rhist = <<>>
  /\ waits = <<>>
  /\ rerr = 0

NextRetry == RetryInvoke \/ RetryWait

SpecRetry == InitRetry /\ [][NextRetry]_vars


\* ------------------------------------------------------- the Transformer
\* Strings are sequences of one-character strings over the characters
\* [ ] " , space a b, which is what the tag handling distinguishes.
Quote == "\""

\* A parse that failed (JSON.parse throws SyntaxError).
NoParse == [ok |-> FALSE, val |-> [t |-> "none", v |-> <<>>], next |-> 0]

\* Position of the first character at or after p that is not whitespace.
RECURSIVE SkipWs(_, _)
SkipWs(s, p) == IF p <= Len(s) /\ s[p] = " " THEN SkipWs(s, p + 1) ELSE p

\* Position of the first quote at or after p, Len(s) + 1 when there is none.
RECURSIVE FindQuote(_, _)
FindQuote(s, p) == IF p <= Len(s) /\ s[p] # Quote THEN FindQuote(s, p + 1) ELSE p

\* JSON.parse restricted to the alphabet: a value is a string literal or an
\* array of values; whitespace is allowed around values and separators.
RECURSIVE ParseValue(_, _)
RECURSIVE ParseElems(_, _, _)
ParseValue(s, p) ==
  IF p > Len(s) THEN NoParse
  ELSE IF s[p] = Quote
    THEN LET q == FindQuote(s, p + 1) IN
           IF q > Len(s) THEN NoParse
           ELSE [ok |-> TRUE, val |-> [t |-> "str", v |-> SubSeq(s, p + 1, q - 1)],
                 next |-> q + 1]
  ELSE IF s[p] = "["
    THEN LET q == SkipWs(s, p + 1) IN
           IF q <= Len(s) /\ s[q] = "]"
             THEN [ok |-> TRUE, val |-> [t |-> "arr", v |-> <<>>], next |-> q + 1]
             ELSE ParseElems(s, q, <<>>)
  ELSE NoParse

ParseElems(s, p, acc) ==
  LET e == ParseValue(s, p) IN
    IF ~e.ok THEN NoParse
    ELSE LET r == SkipWs(s, e.next) IN
      IF r > Len(s) THEN NoParse
      ELSE IF s[r] = "," THEN ParseElems(s, SkipWs(s, r + 1), Append(acc, e.val))
      ELSE IF s[r] = "]"
        THEN [ok |-> TRUE, val |-> [t |-> "arr", v |-> Append(acc, e.val)], next |-> r + 1]
      ELSE NoParse

JsonParse(s) ==
  LET e == ParseValue(s, SkipWs(s, 1)) IN
    IF e.ok /\ SkipWs(s, e.next) > Len(s) THEN e ELSE NoParse

\* String.prototype.trim
RECURSIVE Trim(_)
Trim(s) ==
  IF s = <<>> THEN s
  ELSE IF Head(s) = " " THEN Trim(Tail(s))
  ELSE IF s[Len(s)] = " " THEN Trim(SubSeq(s, 1, Len(s) - 1))
  ELSE s

\* s.split(","), with cur the fragment being collected
RECURSIVE SplitComma(_, _)
SplitComma(s, cur) ==
  IF s = <<>> THEN <<cur>>
  ELSE IF Head(s) = "," THEN <<cur>> \o SplitComma(Tail(s), <<>>)
  ELSE SplitComma(Tail(s), Append(cur, Head(s)))

\* The tags of transformProductToMongoSchema / transformProduct: what
\* JSON.parse returned when it is an array, that value wrapped when it is
\* not, and the trimmed non-empty comma fragments when it threw.
NormalizeTags(field) ==
  IF field = <<>> THEN <<>>
  ELSE LET e == JsonParse(field) IN
    IF e.ok
      THEN IF e.val.t = "arr" THEN e.val.v ELSE <<e.val>>
      ELSE LET parts == SplitComma(field, <<>>)
               trimmed == [n \in 1..Len(parts) |-> [t |-> "str", v |-> Trim(parts[n])]]
           IN SelectSeq(trimmed, LAMBDA x : Len(x.v) > 0)

\* ---- the tags columns tried
\* Strings a tag list is built from: plain, padded and empty.
TagElems == {<<>>, <<"a">>, <<"b">>, <<" ", "a">>, <<" ", "b", " ">>}

TagLists == UNION {[1..n -> TagElems] : n \in 0..MaxTags}

RECURSIVE JoinWith(_, _)
JoinWith(l, sep) ==
  IF l = <<>> THEN <<>>
  ELSE IF Len(l) = 1 THEN l[1]
  ELSE l[1] \o sep \o JoinWith(Tail(l), sep)

\* JSON.stringify of a list of strings, with sep between the elements.
JsonOf(l, sep) ==
  <<"[">> \o JoinWith([n \in 1..Len(l) |-> <<Quote>> \o l[n] \o <<Quote>>], sep) \o <<"]">>

JsonArrayInputs == {JsonOf(l, sep) : l \in TagLists, sep \in {<<",">>, <<",", " ">>}}

\* The same without the closing bracket: not JSON.
MalformedInputs == {SubSeq(x, 1, Len(x) - 1) : x \in JsonArrayInputs}

CommaInputs == {JoinWith(l, <<",">>) : l \in TagLists}

TagInputs == JsonArrayInputs \cup MalformedInputs \cup CommaInputs

\* The transformer applied to one record's tags column.
TransformTags ==
  /\ tpc = "input"
  /\ tags' = NormalizeTags(tagsField)
  /\ tpc' = "done"
  /\ UNCHANGED <<tagsField, indexStep, diagnostic, envVars, pc, loopVars,
                 insertVars, storeVars, endVars, srcVars, ghostVars, retryVars>>

InitTags ==
  /\ variant = "file"
  /\ GOOGLE_API_KEY = TRUE
  /\ MONGODB_ATLAS_URI = FALSE
  /\ BATCH_SIZE = 1
  /\ uniqueSku = FALSE
  /\ dest = {}
  /\ destBefore = {}
  /\ vectorIndex = FALSE
  /\ outputFile = <<>>
  /\ fileBefore = <<>>
  /\ pc = "harness"
  /\ sqliteProducts = <<>> /\ i = 0 /\ j = 0
  /\ productsWithEmbeddings = <<>>
  /\ successCount = 0 /\ failCount = 0
  /\ totalSuccess = 0 /\ totalFailed = 0
  /\ success = 0 /\ failed = 0 /\ k = 0
  /\ mongoClient = "null"
  /\ summary = <<>>
  /\ exitStatus = "none" /\ thrownAt = "none"
  /\ srcOpens = 0 /\ srcCloses = 0
  /\ embedLog = <<>> /\ embedOk = <<>>
  /\ insertLog = <<>> /\ callLog = <<>>
  /\ purges = 0 /\ pauses = 0 /\ createCalls = 0
  /\ indexStep = "none" /\ diagnostic = FALSE
  /\ RetryIdle
  /\ tpc = "input"
  /\ tagsField \in TagInputs
  /\ tags = <<>>

NextTags == TransformTags

SpecTags == InitTags /\ [][NextTags]_vars

\* ================================================================ properties
\* Number of retryWithBackoff calls of the run that ended in an error.
EmbedFailures == Cardinality({n \in 1..Len(embedOk) : ~embedOk[n]})

\* What the sink was handed: the array written to the file, or the
\* arguments of the insertOne calls.
Delivered ==
  IF variant = "file"
    THEN IF outputFile = <<>> THEN <<>> ELSE outputFile[1]
    ELSE [n \in 1..Len(insertLog) |-> insertLog[n].doc]

\* The run went through every window and printed its final report.
Reported == summary # <<>>

\* C1: in both variants a record whose embedding call failed still reaches
\* the sink, without a vector: the sink receives exactly the N records, in
\* order, each with a vector exactly when its call succeeded.
C1_FailedRecordStillDelivered ==
  Reported =>
    /\ Len(Delivered) = N
    /\ \A n \in 1..Len(Delivered) :
         /\ Delivered[n].idx = n
         /\ Delivered[n].emb = embedOk[n]

\* C2: retryWithBackoff is called exactly once per record, in order, N times
\* in all; once the loop has been entered the run cannot leave it before
\* every record has been attempted, whatever calls failed.
C2_EveryRecordAttemptedOnce ==
  /\ Len(embedLog) <= N
  /\ \A n \in 1..Len(embedLog) : embedLog[n] = n
  /\ Len(embedOk) <= Len(embedLog)
  /\ (pc \in {"verify", "write", "report"} \/ Reported) => Len(embedLog) = N
  /\ (pc \in {"finally", "exit", "done"} /\ embedLog # <<>>) => Len(embedLog) = N

\* A run of three records in windows of two whose first call failed and
\* whose later calls, in the same and in the next window, were still made.
C2_Witness ==
  /\ pc = "done" /\ N = 3 /\ BATCH_SIZE = 2
  /\ Len(embedOk) = 3 /\ ~embedOk[1] /\ embedOk[2] /\ ~embedOk[3]
  /\ embedLog = <<1, 2, 3>>

\* C3: the final summary reports succeeded = N - F and failed = F, where F
\* is the number of failed embedding calls, in both variants.
C3_SummaryCountsEmbeddings ==
  Reported =>
    /\ summary[1].succeeded = N - EmbedFailures
    /\ summary[1].failed = EmbedFailures

RateLimitedTwice ==
  /\ maxRetries = DefaultMaxRetries
  /\ Len(rhist) >= 2
  /\ rhist[1] = RateLimitStatus
  /\ rhist[2] = RateLimitStatus

\* C4: with maxRetries = 3, two rate-limit failures are each followed by a
\* wait; the two waits sum to at least 3 * base delay, each is within the
\* cap, and a success on the third invocation is returned, after exactly
\* three invocations.
C4_TwoRateLimitsThenSuccess ==
  RateLimitedTwice =>
    /\ Len(waits) = 2
    /\ SumSeq(waits) >= BaseDelayMs + 2 * BaseDelayMs
    /\ \A n \in 1..Len(waits) : waits[n] <= CapDelayMs
    /\ Len(rhist) <= 3
    /\ (Len(rhist) = 3 /\ rhist[3] = OkStatus) => (rpc = "returned" /\ attempt = 3)

C4_Witness ==
  /\ maxRetries = DefaultMaxRetries
  /\ rhist = <<RateLimitStatus, RateLimitStatus, OkStatus>>
  /\ rpc = "returned"

IsOtherError(r) == r # OkStatus /\ r # RateLimitStatus

\* C5: an error that is not a rate-limit signal ends the call at once: it is
\* the last provider answer of the call, it is the error thrown, and no wait
\* was started after it.
C5_OtherErrorNotRetried ==
  \A n \in 1..Len(rhist) :
    IsOtherError(rhist[n]) =>
      /\ n = Len(rhist)
      /\ rpc = "threw"
      /\ rerr = rhist[n]
      /\ Len(waits) = n - 1

\* An error without rate-limit status on the second attempt of a call.
C5_Witness ==
  /\ Len(rhist) = 2 /\ rhist[1] = RateLimitStatus /\ IsOtherError(rhist[2])
  /\ rpc = "threw"

AllRateLimited ==
  /\ maxRetries >= 1
  /\ Len(rhist) = maxRetries
  /\ \A n \in 1..Len(rhist) : rhist[n] = RateLimitStatus

\* C6: a call invokes the provider at most maxRetries times; when all
\* maxRetries invocations were rate limited it has waited maxRetries - 1
\* times, does not wait again, and throws the rate-limit error.
C6_AtMostMaxRetriesInvocations ==
  /\ maxRetries >= 1 => Len(rhist) <= maxRetries
  /\ AllRateLimited =>
       /\ rpc = "threw"
       /\ rerr = RateLimitStatus
       /\ Len(waits) = maxRetries - 1

C6_Witness ==
  /\ AllRateLimited /\ maxRetries = 4 /\ rpc = "threw"

\* C7: the n-th wait of a call follows the failure of attempt n and lasts
\* min(1000 * 2^n, 30000) ms; waits never shrink and never exceed the cap.
C7_BackoffDelays ==
  \A n \in 1..Len(waits) :
    /\ waits[n] = (IF BaseDelayMs * (2 ^ n) < CapDelayMs THEN BaseDelayMs * (2 ^ n) ELSE CapDelayMs)
    /\ waits[n] <= CapDelayMs
    /\ n > 1 => waits[n - 1] <= waits[n]

\* A call that had to wait after its fifth attempt, where the cap applies.
C7_Witness ==
  /\ Len(waits) >= 5 /\ waits[4] < CapDelayMs /\ waits[5] = CapDelayMs

StoreRunOk == variant = "store" /\ pc = "done" /\ exitStatus = "zero"

\* C8 as stated: after a store run that exits successfully the collection
\* holds exactly the records of that run and no document from before it.
C8_DestinationIsThisRun ==
  StoreRunOk =>
    /\ \A d \in dest : d.origin = "run"
    /\ {d.idx : d \in dest} = 1..N

\* Documents the run's successful insertOne calls stored.
Inserted == {DocOf(insertLog[n].doc) : n \in {m \in 1..Len(insertLog) : insertLog[m].ok}}

\* C8 amended: after a store run over a non-empty extraction that exits
\* successfully, no earlier document survives and the collection holds
\* exactly the records whose insertOne succeeded in this run.
C8_PurgedThenInserted ==
  (StoreRunOk /\ N > 0) =>
    /\ dest \cap destBefore = {}
    /\ \A d \in dest : d.origin = "run"
    /\ dest = Inserted
    /\ purges = 1

C8_Witness ==
  /\ StoreRunOk /\ N > 0 /\ destBefore # {} /\ dest # {}

\* Inserts of the current insertProductsToMongo call that failed with an
\* error other than duplicate key.
HardFailures ==
  Cardinality({n \in 1..Len(callLog) :
                 ~callLog[n].ok /\ callLog[n].code # DuplicateKeyCode})

InsertReturning == pc = "insert" /\ k > Len(productsWithEmbeddings)

\* C9: the failed count insertProductsToMongo returns is the number of
\* inserts that failed with a non-duplicate error; duplicate-key skips do
\* not raise it.
C9_DuplicateIsNotHardFailure ==
  InsertReturning => failed = HardFailures

\* C10: insertOne is attempted exactly once per record handed in, in order,
\* whatever errors occur, and success + failed is the number handed in.
C10_EveryInsertAttempted ==
  /\ pc = "insert" =>
       /\ Len(callLog) = k - 1
       /\ \A n \in 1..Len(callLog) : callLog[n].doc = productsWithEmbeddings[n]
       /\ success + failed = Len(callLog)
  /\ InsertReturning =>
       /\ Len(callLog) = Len(productsWithEmbeddings)
       /\ success + failed = Len(productsWithEmbeddings)

\* A call with two records whose first insert failed and whose second was
\* still made and stored.
C10_Witness ==
  /\ InsertReturning /\ Len(callLog) = 2
  /\ ~callLog[1].ok /\ callLog[2].ok

\* Extraction succeeded and returned no rows.
EmptyExtraction == srcOpens = 1 /\ thrownAt # "query" /\ N = 0

\* C11: in the file variant an empty extraction ends the run successfully:
\* the run goes straight to its exit, retryWithBackoff is never called, the
\* output file is left as it was, and the exit status is zero.
C11_EmptySourceWritesNothing ==
  (variant = "file" /\ EmptyExtraction) =>
    /\ pc \in {"exit", "done"}
    /\ thrownAt = "none"
    /\ embedLog = <<>>
    /\ rpc = "idle"
    /\ outputFile = fileBefore
    /\ pc = "done" => exitStatus = "zero"

\* An empty export finished while an earlier run's file was on disk.
C11_Witness ==
  /\ variant = "file" /\ EmptyExtraction /\ pc = "done"
  /\ fileBefore = <<PriorFile>> /\ outputFile = <<PriorFile>>

MissingConfig == ~GOOGLE_API_KEY \/ (variant = "store" /\ ~MONGODB_ATLAS_URI)

\* C12: when a required credential or descriptor is missing the run fails
\* before any I/O: it never reaches extraction, the source is not opened,
\* no client is created, nothing is purged, embedded, inserted or written,
\* and the process exits non-zero.
C12_MissingConfigFailsBeforeIO ==
  MissingConfig =>
    /\ pc \in {"start", "exit", "done"}
    /\ pc # "start" => thrownAt = "config"
    /\ srcOpens = 0
    /\ mongoClient = "null"
    /\ indexStep = "none" /\ createCalls = 0 /\ purges = 0
    /\ dest = destBefore
    /\ embedLog = <<>> /\ insertLog = <<>>
    /\ outputFile = fileBefore
    /\ pc = "done" => exitStatus = "nonzero"

\* A store run with the URI set and the embedding key missing has ended.
C12_Witness ==
  /\ variant = "store" /\ MONGODB_ATLAS_URI /\ ~GOOGLE_API_KEY
  /\ pc = "done" /\ exitStatus = "nonzero"

\* verifyMigration was called.
VerifierRan ==
  variant = "store" /\ (thrownAt = "verify" \/ pc = "report" \/ Reported)

\* C13: the Verifier changes nothing in the collection and has no effect
\* on the outcome: once it has run, whatever its reads did, the collection
\* is what the inserts left, no error is pending, and the run exits zero.
C13_VerifierNeverAffectsOutcome ==
  VerifierRan =>
    /\ dest = Inserted
    /\ thrownAt = "none"
    /\ pc = "done" => exitStatus = "zero"

IndexStepFailed == indexStep \in {"listFailed", "createFailed"}

\* C14: index provisioning is conditional and non-fatal: an index that is
\* found is not created again, at most one create is issued, and whether
\* the step succeeded or failed the run goes on to the purge; no run ends
\* because of it, and a run that meets no other error reports and exits zero.
C14_IndexProvisioningNonFatal ==
  /\ indexStep = "exists" => createCalls = 0
  /\ indexStep = "listFailed" => createCalls = 0
  /\ indexStep \in {"created", "createFailed"} => createCalls = 1
  /\ indexStep # "none" =>
       /\ pc \notin {"start", "extract", "connect", "ping", "index"}
       /\ thrownAt \in {"none", "purge", "verify"}
       /\ pc = "purge" \/ purges = 1 \/ thrownAt = "purge"
       /\ (pc = "done" /\ thrownAt = "none") =>
            (Reported /\ exitStatus = "zero" /\ dest = Inserted)

\* A run whose createSearchIndex call failed still stored documents,
\* reported and exited zero.
C14_Witness ==
  /\ indexStep = "createFailed" /\ pc = "done" /\ exitStatus = "zero"
  /\ Reported /\ dest # {}

\* C15: the source database is closed whenever it was opened, before
\* extraction returns or throws, and a destination client that was created
\* is closed before the run ends, on every path.
C15_ConnectionsReleased ==
  /\ srcCloses = srcOpens
  /\ pc \in {"exit", "done"} => mongoClient # "open"
  /\ mongoClient = "closed" => pc \in {"exit", "done"}

\* A run that failed at the purge ended with both connections closed.
C15_Witness ==
  /\ pc = "done" /\ thrownAt = "purge"
  /\ mongoClient = "closed" /\ srcOpens = 1 /\ srcCloses = 1

\* C16 as stated: a run that ended with an error exits non-zero after a
\* diagnostic, and every run that exits zero has printed the final summary.
C16_ExitBehaviour ==
  pc = "done" =>
    /\ thrownAt # "none" => (exitStatus = "nonzero" /\ diagnostic)
    /\ exitStatus = "zero" => Reported

\* C16 amended: a run that ended with an error exits non-zero after a
\* diagnostic; a run that exits zero met no error, and has printed the
\* final summary whenever extraction returned at least one row.
C16_ExitBehaviourNonEmpty ==
  pc = "done" =>
    /\ thrownAt # "none" => (exitStatus = "nonzero" /\ diagnostic)
    /\ exitStatus = "zero" => (thrownAt = "none" /\ ~diagnostic)
    /\ (exitStatus = "zero" /\ N > 0) => Reported
    /\ exitStatus \in {"zero", "nonzero"}

\* A run over three rows, one of whose embeddings failed, exited zero with
\* its summary printed.
C16_Witness ==
  /\ pc = "done" /\ exitStatus = "zero" /\ N = 3 /\ EmbedFailures = 1 /\ Reported

ConnectivityFailure == thrownAt \in {"connect", "ping"}

\* C18: when connecting to or pinging the destination fails, the run ends
\* at once with a non-zero exit: no index provisioning, no purge, no
\* embedding call, no insert, and the collection is as it was.
C18_ConnectivityErrorAborts ==
  ConnectivityFailure =>
    /\ variant = "store"
    /\ pc \in {"finally", "exit", "done"}
    /\ indexStep = "none" /\ createCalls = 0
    /\ purges = 0
    /\ embedLog = <<>> /\ insertLog = <<>>
    /\ dest = destBefore
    /\ pc = "done" => exitStatus = "nonzero"

\* A ping failure ended a run whose collection still holds the old documents.
C18_Witness ==
  /\ thrownAt = "ping" /\ pc = "done" /\ exitStatus = "nonzero"
  /\ destBefore # {} /\ dest = destBefore

\* Number of windows of N records: Math.ceil(length / BATCH_SIZE).
totalBatches == (N + BATCH_SIZE - 1) \div BATCH_SIZE

InWindow == pc \in {"embed", "await_embed", "insert", "pace", "delay"}

PastLoop == pc \in {"verify", "write", "report"} \/ Reported \/ thrownAt \in {"verify", "write"}

\* C19: the scheduler pauses once after each window that is followed by
\* another one: while window number w is being processed exactly w - 1
\* pauses have been taken (none inside a window, each one finished before
\* the next window starts), the pause is pending only when a further
\* window exists, and after the last window the count is ceil(N/W) - 1.
C19_InterWindowPacing ==
  /\ InWindow => (i % BATCH_SIZE = 0 /\ i < N /\ pauses = i \div BATCH_SIZE)
  /\ pc = "delay" => i + BATCH_SIZE < N
  /\ (pc = "loop" /\ i < N) => pauses = i \div BATCH_SIZE
  /\ (pc = "loop" /\ i >= N) => pauses = totalBatches - 1
  /\ PastLoop => pauses = totalBatches - 1

\* Three records in windows of one: two pauses by the end of the run.
C19_Witness ==
  /\ Reported /\ N = 3 /\ BATCH_SIZE = 1 /\ pauses = 2

InLoop == pc \in {"loop", "embed", "await_embed", "insert", "pace", "delay"}

\* Records of the windows before the current one.
DoneBefore == IF i < N THEN i ELSE N

\* C20: the run terminates: once in the window loop it leaves it after the
\* last window and goes on to its final report (or to the error of the
\* verification or of the file write); it always ends.  Nothing is
\* re-processed: the records handed to the Embedding Client are 1, 2, ... in
\* order, those of earlier windows are never handed in again, and one call
\* invokes the provider at most DefaultMaxRetries times.
C20_RunTerminates ==
  /\ [](Len(rhist) <= DefaultMaxRetries)
  /\ [](\A n \in 1..Len(embedLog) : embedLog[n] = n)
  /\ [](InLoop => (Len(embedLog) >= DoneBefore /\ Len(embedLog) <= DoneBefore + BATCH_SIZE))
  /\ (InLoop ~> PastLoop)
  /\ (PastLoop ~> (pc = "done" /\ (Reported \/ thrownAt \in {"verify", "write"})))
  /\ <>(pc = "done")

\* Three records in windows of two: the call for the last record has used
\* all its attempts, every one rate limited, and ends without a fourth.
C20_Witness ==
  /\ N = 3 /\ BATCH_SIZE = 2 /\ pc = "await_embed" /\ rpc = "threw"
  /\ Len(rhist) = DefaultMaxRetries /\ rerr = RateLimitStatus /\ Len(embedLog) = 3

\* The two columns the specification names: ["a", "b"] and a, b ,
ExampleJson == <<"[", Quote, "a", Quote, ",", " ", Quote, "b", Quote, "]">>
ExampleComma == <<"a", ",", " ", "b", " ", ",">>
TagsAB == <<[t |-> "str", v |-> <<"a">>], [t |-> "str", v |-> <<"b">>]>>

\* C17: whatever the tags column is (a JSON array of strings, malformed
\* JSON, a comma-separated string), the normalized tags are strings, each
\* trimmed and none empty; ["a", "b"] and "a, b ," both give a, b.
C17_TagsNormalized ==
  tpc = "done" =>
    /\ \A n \in 1..Len(tags) :
         /\ tags[n].t = "str"
         /\ tags[n].v # <<>>
         /\ tags[n].v = Trim(tags[n].v)
    /\ tagsField = ExampleJson => tags = TagsAB
    /\ tagsField = ExampleComma => tags = TagsAB

\* verifyMigration has been called (it may still be running).
VerifierStarted == variant = "store" /\ (pc = "verify" \/ VerifierRan)

\* Records whose embedding call succeeded, in order: what the windows
\* hand to insertProductsToMongo.
Embedded(upTo) == SelectSeq([n \in 1..upTo |-> n], LAMBDA n : embedOk[n])

\* Records insertOne was called with, in call order.
InsertedIdx == [n \in 1..Len(insertLog) |-> insertLog[n].doc.idx]

\* C21: step order of a store run: index provisioning has ended before the
\* purge is issued; the purge is issued at most once, only at step 5, and
\* exactly once before the window loop, the first insert and the
\* verification; once a record was inserted the collection is never purged
\* again and loses no document; verification starts only when the last
\* window's inserts have all been made, and no insert follows its start.
C21_StepOrdering ==
  /\ [](purges <= 1)
  /\ []((pc = "purge" \/ purges > 0 \/ thrownAt = "purge") => indexStep # "none")
  /\ [](pc \in {"start", "extract", "connect", "ping", "index"} =>
          (purges = 0 /\ insertLog = <<>>))
  /\ []((variant = "store" /\ (InLoop \/ insertLog # <<>> \/ VerifierStarted)) => purges = 1)
  /\ [][purges' # purges =>
          (pc = "purge" /\ indexStep # "none" /\ insertLog = <<>> /\ embedLog = <<>>)]_vars
  /\ [][insertLog # <<>> => (purges' = purges /\ dest \subseteq dest')]_vars
  /\ [](VerifierStarted =>
          (i >= N /\ Len(embedOk) = N /\ InsertedIdx = Embedded(N)))
  /\ [][(VerifierStarted \/ VerifierStarted') =>
          (insertLog' = insertLog /\ embedLog' = embedLog /\ dest' = dest)]_vars

\* Verification is running after two windows whose inserts replaced the
\* documents of an earlier run; the index was created first.
C21_Witness ==
  /\ variant = "store" /\ pc = "verify" /\ N = 3 /\ BATCH_SIZE = 2
  /\ indexStep = "created" /\ purges = 1 /\ destBefore # {}
  /\ Len(insertLog) = 3 /\ dest # {}

\* The skus of a sequence of records.
SkusOf(recs) == [n \in 1..Len(recs) |-> recs[n].sku]

\* The array the file variant wrote.
Written == IF outputFile = <<>> THEN <<>> ELSE outputFile[1]

\* C22: records reach the sink in extraction order.  File variant: the
\* array being collected is always the rows extracted so far, in order, and
\* the written array lists the skus of all N rows in extraction order,
\* whatever calls failed and whatever the window size.  Store variant: the
\* insertOne calls are made in increasing row order, each with the record
\* of its row; while a window is being embedded the calls made so far are
\* exactly those for the embedded records of the earlier windows, and while
\* a window is being inserted no call of a later window has been started.
C22_OrderPreserved ==
  /\ variant = "file" =>
       /\ \A n \in 1..Len(productsWithEmbeddings) :
            /\ productsWithEmbeddings[n].idx = n
            /\ productsWithEmbeddings[n].sku = sqliteProducts[n]
       /\ (pc = "report" \/ Reported) =>
            /\ Len(Written) = N
            /\ SkusOf(Written) = sqliteProducts
            /\ \A n \in 1..N : Written[n].idx = n /\ Written[n].emb = embedOk[n]
  /\ variant = "store" =>
       /\ \A n \in 1..Len(insertLog) :
            /\ insertLog[n].doc.idx \in 1..N
            /\ insertLog[n].doc.sku = sqliteProducts[insertLog[n].doc.idx]
            /\ n > 1 => insertLog[n - 1].doc.idx < insertLog[n].doc.idx
       /\ pc \in {"embed", "await_embed"} =>
            /\ InsertedIdx = Embedded(i)
            /\ Len(embedLog) >= i
       /\ pc = "insert" =>
            /\ Len(embedLog) = Min(i + BATCH_SIZE, N)
            /\ Len(embedOk) = Len(embedLog)
            /\ InsertedIdx = Embedded(i) \o
                 [n \in 1..(k - 1) |-> productsWithEmbeddings[n].idx]
            /\ Embedded(Len(embedOk)) = Embedded(i) \o
                 [n \in 1..Len(productsWithEmbeddings) |-> productsWithEmbeddings[n].idx]

\* Three rows with a repeated sku exported in windows of two; the first and
\* the last embedding failed and the file lists the rows in their order.
C22_Witness ==
  /\ variant = "file" /\ Reported /\ BATCH_SIZE = 2
  /\ sqliteProducts = <<1, 2, 1>>
  /\ embedOk = <<FALSE, TRUE, FALSE>>
  /\ SkusOf(Written) = <<1, 2, 1>>

====
